---- MODULE Spec2Model ----
(***************************************************************************)
(* Task-priority control of the turtlebot mobile manipulator:              *)
(*   src/src/config.py, src/src/utils/mobile_manipulator.py,               *)
(*   src/src/utils/task.py                                                 *)
(*                                                                         *)
(* Angles of the arm joints are integers in milliradians (1.571 rad is     *)
(* 1571).  numpy arrays are functions over 0..n-1, indexed as Python       *)
(* indexes them.  A float that can become non-finite is a record           *)
(* [k, v]: k = "fin" with the value v, k = "nan", or k = "inf" with the    *)
(* sign v.                                                                 *)
(***************************************************************************)
EXTENDS Integers, Sequences, FiniteSets, TLC

-----------------------------------------------------------------------------
(* config.py *)

limit_joint1_upper == 1571
limit_joint1_lower == -1571
limit_joint2_upper == 50
limit_joint2_lower == -1571
limit_joint3_upper == 50
limit_joint3_lower == -1571
limit_joint4_upper == 1571
limit_joint4_lower == -1571

limit_joint_threshold_activate == 50
limit_joint_threshold_deactivate == 80

\* The limits handed to JointLimits, one entry per arm joint, 0-indexed.
upper_limits ==
    [i \in 0..3 |-> CASE i = 0 -> limit_joint1_upper
                      [] i = 1 -> limit_joint2_upper
                      [] i = 2 -> limit_joint3_upper
                      [] i = 3 -> limit_joint4_upper]

lower_limits ==
    [i \in 0..3 |-> CASE i = 0 -> limit_joint1_lower
                      [] i = 1 -> limit_joint2_lower
                      [] i = 2 -> limit_joint3_lower
                      [] i = 3 -> limit_joint4_lower]

activation_thresh == limit_joint_threshold_activate
deactivation_thresh == limit_joint_threshold_deactivate

-----------------------------------------------------------------------------
(* Floats and arrays *)

Fin(n) == [k |-> "fin", v |-> n]
NaN == [k |-> "nan", v |-> 0]
Inf(s) == [k |-> "inf", v |-> s]

IsFinite(x) == x.k = "fin"

Sign(n) == IF n > 0 THEN 1 ELSE IF n < 0 THEN -1 ELSE 0

\* IEEE-754 arithmetic as numpy does it (a division by zero warns and
\* yields inf or nan, it does not raise).  Finite quotients are exact for
\* the inputs the model draws.
FMul(a, b) ==
    IF a.k = "nan" \/ b.k = "nan" THEN NaN
    ELSE IF a.k = "inf" \/ b.k = "inf"
         THEN IF Sign(a.v) * Sign(b.v) = 0 THEN NaN ELSE Inf(Sign(a.v) * Sign(b.v))
         ELSE Fin(a.v * b.v)

FAdd(a, b) ==
    IF a.k = "nan" \/ b.k = "nan" THEN NaN
    ELSE IF a.k = "inf" /\ b.k = "inf" THEN (IF a.v = b.v THEN a ELSE NaN)
    ELSE IF a.k = "inf" THEN a
    ELSE IF b.k = "inf" THEN b
    ELSE Fin(a.v + b.v)

FNeg(a) == IF a.k = "nan" THEN NaN ELSE [k |-> a.k, v |-> -a.v]

FSub(a, b) == FAdd(a, FNeg(b))

FDiv(a, b) ==
    IF a.k = "nan" \/ b.k = "nan" THEN NaN
    ELSE IF a.k = "inf" THEN (IF b.k = "inf" THEN NaN
                              ELSE Inf(IF b.v < 0 THEN -a.v ELSE a.v))
    ELSE IF b.k = "inf" THEN Fin(0)
    ELSE IF b.v = 0 THEN (IF a.v = 0 THEN NaN ELSE Inf(Sign(a.v)))
    ELSE Fin(Sign(a.v) * Sign(b.v) *
             ((IF a.v < 0 THEN -a.v ELSE a.v) \div (IF b.v < 0 THEN -b.v ELSE b.v)))

\* np.zeros((n, 1))
Zeros(n) == [i \in 0..(n - 1) |-> Fin(0)]

\* len() of an array
Size(a) == Cardinality(DOMAIN a)

\* np.zeros((r, c)) and np.eye(n) as integer matrices
ZeroMatrix(r, c) == [i \in 0..(r - 1) |-> [j \in 0..(c - 1) |-> 0]]
Eye(n) == [i \in 0..(n - 1) |-> [j \in 0..(n - 1) |-> IF i = j THEN 1 ELSE 0]]

\* Python's a[k] on a sequence of length n: negative k counts from the end,
\* anything outside -n..n-1 raises IndexError.
PyIndex(k, n) ==
    IF 0 <= k /\ k < n THEN [ok |-> TRUE, at |-> k]
    ELSE IF -n <= k /\ k < 0 THEN [ok |-> TRUE, at |-> k + n]
    ELSE [ok |-> FALSE, at |-> 0]

-----------------------------------------------------------------------------
(* State *)

VARIABLES
    q,              \* MobileManipulator.q: arm joint positions (mrad)
    eta,            \* MobileManipulator.eta: base pose, an array of floats
    activation,     \* JointLimits.activation: 6 entries
    jlJ,            \* JointLimits.J
    jlErr,          \* JointLimits.err
    K,              \* JointLimits.K, the gain
    T,              \* MobileManipulator.T[-1][0:2, 3]: the end-effector's x, y
    obsActivation,  \* Obstacle3D.activation
    obsErr,         \* Obstacle3D.err
    obsJ,           \* Obstacle3D.J
    obsHist,        \* Obstacle3D.err_hist
    obsThresh,      \* Obstacle3D.activation_thresh, deactivation_thresh
    preObs,         \* Obstacle3D.activation before the last operation
    task,           \* a tracking task: its class, J, err, err_pos, err_hist
    jlHist,         \* JointLimits.err_hist
    swJoint,        \* the sweep: index of the swept joint, -1 before it starts
    swDir,          \* the sweep: "idle", "up", "down" or "done"
    swSeq,          \* the sweep: the distinct activation values seen, in order
    lastOp,         \* the operation that ran last
    arg,            \* the arguments it was called with
    preAct,         \* JointLimits.activation as it was before that operation
    ret             \* what the last operation returned or raised

robotVars == <<q, eta, T>>
jlVars == <<activation, jlJ, jlErr, K, jlHist>>
obsVars == <<obsActivation, obsErr, obsJ, obsHist, obsThresh>>
sweepVars == <<swJoint, swDir, swSeq>>
histVars == <<lastOp, arg, preAct, preObs, ret>>
vars == <<robotVars, jlVars, obsVars, task, sweepVars, histVars>>

NoValue == [ok |-> TRUE, val |-> "None"]
Raised(e) == [ok |-> FALSE, val |-> e]
Returned(x) == [ok |-> TRUE, val |-> x]

-----------------------------------------------------------------------------
(* MobileManipulator *)

dof == 4

\* ManipulatorParams.dof: the columns of getEEJacobian
manipulatorParams_dof == 4

getDOF == dof

\* getJointPos(joint): self.q[joint-1]
getJointPos(qq, joint) ==
    LET ix == PyIndex(joint - 1, Size(qq))
    IN  IF ix.ok THEN Returned(qq[ix.at]) ELSE Raised("IndexError")

getBasePose(e) == e

-----------------------------------------------------------------------------
(* The base pose.  The heading eta[2] and angular_vel * dt are in quarter
   turns, so that the cosines and sines are exact; move_and_rotate_
   simultaneously divides forward_vel by angular_vel, so there forward_vel
   is in length units per quarter-turn time. *)

Cos4(n) == CASE n % 4 = 0 -> 1 [] n % 4 = 1 -> 0 [] n % 4 = 2 -> -1 [] n % 4 = 3 -> 0
Sin4(n) == CASE n % 4 = 0 -> 0 [] n % 4 = 1 -> 1 [] n % 4 = 2 -> 0 [] n % 4 = 3 -> -1

\* np.cos, np.sin: nan for a nan or infinite angle
FCos(x) == IF IsFinite(x) THEN Fin(Cos4(x.v)) ELSE NaN
FSin(x) == IF IsFinite(x) THEN Fin(Sin4(x.v)) ELSE NaN

\* self.eta += d for a (3, 1) array d: numpy adds entry by entry when eta is
\* (3, 1) and raises ValueError (no broadcast) when it is (4, 1).
CanAdd3(e) == Size(e) = 3
Add3(e, d) == [i \in 0..2 |-> FAdd(e[i], d[i])]

\* move_then_rotate: the increment dt * [fv cos(yaw), fv sin(yaw), av]
MoveThenRotateStep(e, av, fv, dt) ==
    [i \in 0..2 |->
        CASE i = 0 -> FMul(Fin(dt), FMul(Fin(fv), FCos(e[2])))
          [] i = 1 -> FMul(Fin(dt), FMul(Fin(fv), FSin(e[2])))
          [] i = 2 -> FMul(Fin(dt), Fin(av))]

\* rotate_then_move: eta[2, 0] += angular_vel * dt
Rotate(e, av, dt) == [e EXCEPT ![2] = FAdd(e[2], FMul(Fin(av), Fin(dt)))]

\* rotate_then_move: the increment dt * [fv cos(yaw), fv sin(yaw), 0]
MoveStep(e, fv, dt) ==
    [i \in 0..2 |->
        CASE i = 0 -> FMul(Fin(dt), FMul(Fin(fv), FCos(e[2])))
          [] i = 1 -> FMul(Fin(dt), FMul(Fin(fv), FSin(e[2])))
          [] i = 2 -> FMul(Fin(dt), Fin(0))]

\* The dot product of a row of three floats with a column of three
Dot3(r, c) == FAdd(FAdd(FMul(r[1], c[0]), FMul(r[2], c[1])), FMul(r[3], c[2]))

\* move_and_rotate_simultaneously: the new eta, (a @ b) + c
MoveAndRotate(e, av, fv, dt) ==
    LET R == FDiv(Fin(fv), Fin(av))
        w == FMul(Fin(av), Fin(dt))
        ICC == <<FSub(e[0], FMul(R, FSin(e[2]))), FAdd(e[1], FMul(R, FCos(e[2])))>>
        b == [i \in 0..2 |-> CASE i = 0 -> FSub(e[0], ICC[1])
                               [] i = 1 -> FSub(e[1], ICC[2])
                               [] i = 2 -> e[2]]
    IN  [i \in 0..2 |->
            CASE i = 0 -> FAdd(Dot3(<<FCos(w), FNeg(FSin(w)), Fin(0)>>, b), ICC[1])
              [] i = 1 -> FAdd(Dot3(<<FSin(w), FCos(w), Fin(0)>>, b), ICC[2])
              [] i = 2 -> FAdd(Dot3(<<Fin(0), Fin(0), Fin(1)>>, b), w)]

-----------------------------------------------------------------------------
(* JointLimits *)

\* The gain and the desired value are constructor arguments.
desired == <<0, 0, 0, 0>>
gain == 1

\* One pass of the loop body of updateActivation, for loop index i: the new
\* value of activation[i + 2] from its old value a and the position pos that
\* getJointPos(i + 1) returned.
UpdateActivationEntry_strict(a, pos, i) ==
    IF pos > upper_limits[i] - activation_thresh /\ a = 0 THEN -1
    ELSE IF a = 0 /\ pos <= lower_limits[i] + activation_thresh THEN 1
    ELSE IF a = -1 /\ pos <= upper_limits[i] - deactivation_thresh THEN 0
    ELSE IF a = 1 /\ pos >= lower_limits[i] + deactivation_thresh THEN 0
    ELSE a

UpdateActivationEntry(a, pos, i) ==
    IF pos >= upper_limits[i] - activation_thresh /\ a = 0 THEN -1
    ELSE IF a = 0 /\ pos <= lower_limits[i] + activation_thresh THEN 1
    ELSE IF a = -1 /\ pos <= upper_limits[i] - deactivation_thresh THEN 0
    ELSE IF a = 1 /\ pos >= lower_limits[i] + deactivation_thresh THEN 0
    ELSE a

\* range(robot.getDOF() - 2)
LoopRange == 0..(getDOF - 2 - 1)

\* updateActivation(robot): every pass reads and writes only its own entry
\* activation[i + 2], so the loop is the entry-wise map.
UpdateActivation(act, qq) ==
    [k \in DOMAIN act |->
        IF (k - 2) \in LoopRange
        THEN UpdateActivationEntry(act[k], getJointPos(qq, (k - 2) + 1).val, k - 2)
        ELSE act[k]]

JLisActive_positive(act) == IF \E k \in DOMAIN act : act[k] > 0 THEN 1 ELSE 0

\* isActive(): 0 when (activation == 0).all(), else 1
JLisActive(act) == IF \A k \in DOMAIN act : act[k] = 0 THEN 0 ELSE 1

\* update(robot): the Jacobian and the error it stores: np.eye(robot.getDOF())
\* and the gain object itself
JLJacobian == Eye(getDOF)
JLError(k) == [is |-> "K", val |-> k]

-----------------------------------------------------------------------------
(* Obstacle3D *)

\* The square of np.linalg.norm(obstacle - ee): lengths are compared through
\* their squares, which orders them as the norms are ordered.
NormSq(a, b) == (a[1] - b[1]) * (a[1] - b[1]) + (a[2] - b[2]) * (a[2] - b[2])

\* norm <= thresh and norm >= thresh
NormLeq(n2, thresh) == n2 <= thresh * thresh
NormGeq(n2, thresh) == n2 >= thresh * thresh

\* x / norm for a norm whose square is n2: the finite quotient is kept as
\* the pair <<x, n2>>
DivByNorm(x, n2) ==
    IF n2 = 0 THEN FDiv(Fin(x), Fin(0)) ELSE [k |-> "fin", v |-> <<x, n2>>]

\* update(robot): the error it stores
ObstacleError(ee, obs) ==
    <<DivByNorm(ee[1] - obs[1], NormSq(obs, ee)),
      DivByNorm(ee[2] - obs[2], NormSq(obs, ee)),
      Fin(0)>>

ObstacleActivation_single(active, n2, thresh) ==
    IF (~active) /\ NormLeq(n2, thresh.act) THEN TRUE
    ELSE IF active /\ NormGeq(n2, thresh.act) THEN FALSE
    ELSE active

\* updateActivation(robot): the new activation
ObstacleActivation(active, n2, thresh) ==
    IF (~active) /\ NormLeq(n2, thresh.act) THEN TRUE
    ELSE IF active /\ NormGeq(n2, thresh.deact) THEN FALSE
    ELSE active

\* err_hist.append(x); the model keeps the last cap entries
AppendHist(h, x, cap) ==
    IF Len(h) < cap THEN Append(h, x) ELSE Append(Tail(h), x)

-----------------------------------------------------------------------------
(* The end-effector Jacobian and position: functions of q and eta that the
   model keeps as the arguments they were computed from *)

\* getEEJacobian(): reads q and eta[3]
getEEJacobian(qq, e) == [set |-> TRUE, rows |-> <<0, 1, 2, 3, 4, 5>>, q |-> qq, yaw |-> e[3]]

\* J[rows, :]
Rows(J, rows) == [J EXCEPT !.rows = rows]

\* getEEposition(): reads q and eta[0], eta[1], eta[2]
getEEposition(qq, e) == [q |-> qq, eta |-> <<e[0], e[1], e[2]>>]

\* K @ (desired - p) + feedforward, and desired - p
TrackingError(p) == [is |-> "K @ (desired - p) + ff", p |-> p]
PositionError(p) == [is |-> "desired - p", p |-> p]

UnsetJ == [set |-> FALSE, rows |-> <<>>, q |-> <<>>, yaw |-> Fin(0)]

-----------------------------------------------------------------------------
(* Bounds and inputs *)

MaxCoord == 3

\* Where the end effector may be in the horizontal plane.
EEPoints == {<<x, y>> : x \in 0..MaxCoord, y \in 0..1}

MaxThresh == 3
MaxHist == 1

\* The positions a joint state may report for arm joint i (0-indexed): each
\* threshold of the joint and its neighbour on the side that must not
\* trigger.
ThresholdPoints(i) ==
    LET ua == upper_limits[i] - activation_thresh
        ud == upper_limits[i] - deactivation_thresh
        la == lower_limits[i] + activation_thresh
        ld == lower_limits[i] + deactivation_thresh
    IN  {ua, ua - 1, ud, ud + 1, la, la + 1, ld, ld - 1}

\* One position inside each activation zone and one between the zones.
ZonePoints(i) ==
    {upper_limits[i] - activation_thresh,
     upper_limits[i] - deactivation_thresh,
     lower_limits[i] + activation_thresh}

JointState(a, b, c, d) ==
    [i \in 0..3 |-> CASE i = 0 -> a [] i = 1 -> b [] i = 2 -> c [] i = 3 -> d]

\* The joint states a message may carry: the first two joints anywhere on
\* their thresholds with the last two between their zones, or any
\* combination of zones of the four joints.
JointStates ==
    {JointState(a, b, upper_limits[2] - deactivation_thresh,
                      upper_limits[3] - deactivation_thresh) :
        a \in ThresholdPoints(0), b \in ThresholdPoints(1)}
    \cup
    {JointState(a, b, c, d) :
        a \in ZonePoints(0), b \in ZonePoints(1),
        c \in ZonePoints(2), d \in ZonePoints(3)}

\* The history the properties read: op ran, with the activations before it.
NoArg == [joint |-> 0, dQ |-> <<0, 0>>, dt |-> 0]

Called(op, a, r) ==
    /\ lastOp' = op
    /\ arg' = a
    /\ preAct' = activation
    /\ preObs' = obsActivation
    /\ ret' = r

Ran(op, r) == Called(op, NoArg, r)

-----------------------------------------------------------------------------
(* Construction *)

TaskClasses == {"EEPosition3D", "EEOrientation3D", "EEConfiguration3D",
                "MMOrientation", "MMposition"}

obstacle == <<0, 0>>

\* Task.__init__ and the subclass's: only EEPosition3D sets J
NewTask(c) ==
    [class |-> c,
     J |-> IF c = "EEPosition3D"
           THEN [set |-> TRUE, rows |-> <<0, 1, 2>>, q |-> <<>>, yaw |-> Fin(0)]
           ELSE UnsetJ,
     err |-> [is |-> "zeros", p |-> <<>>],
     err_pos |-> [is |-> "unset", p |-> <<>>],
     hist |-> <<>>]

Construct(thresh, c) ==
    /\ q = [i \in 0..3 |-> 0]
    /\ eta = Zeros(4)
    /\ T = [set |-> FALSE, xy |-> <<0, 0>>]
    /\ activation = [k \in 0..5 |-> 0]
    /\ jlJ = ZeroMatrix(Len(desired), 4)
    /\ jlErr = [is |-> "zeros", val |-> Len(desired)]
    /\ K = gain
    /\ obsActivation = FALSE
    /\ obsErr = <<Fin(0), Fin(0), Fin(0)>>
    /\ obsJ = [set |-> TRUE, rows |-> <<0, 1, 2>>, q |-> <<>>, yaw |-> Fin(0)]
    /\ obsHist = <<>>
    /\ obsThresh = thresh
    /\ task = NewTask(c)
    /\ jlHist = <<>>
    /\ swJoint = -1
    /\ swDir = "idle"
    /\ swSeq = <<>>
    /\ lastOp = "__init__"
    /\ arg = NoArg
    /\ preAct = [k \in 0..5 |-> 0]
    /\ preObs = FALSE
    /\ ret = NoValue

Init == Construct([act |-> 1, deact |-> MaxThresh], "EEPosition3D")

-----------------------------------------------------------------------------
(* Actions: the robot's state from the joint-state message *)

\* MobileManipulator.update(jointState)
RobotUpdate(js) ==
    /\ q' = js
    /\ eta' = Zeros(4)
    /\ Ran("MobileManipulator.update", NoValue)
    /\ UNCHANGED <<T, jlVars, obsVars, task, sweepVars>>

-----------------------------------------------------------------------------
(* Actions: JointLimits *)

JointLimits_updateActivation ==
    /\ activation' = UpdateActivation(activation, q)
    /\ Ran("JointLimits.updateActivation", NoValue)
    /\ UNCHANGED <<robotVars, jlJ, jlErr, K, jlHist, obsVars, task, sweepVars>>

\* A variant that also pulls the joints back out of the upper zones.
JointLimits_update_clamping ==
    /\ activation' = UpdateActivation(activation, q)
    /\ jlJ' = JLJacobian
    /\ jlErr' = JLError(K)
    /\ q' = [i \in DOMAIN q |->
                IF q[i] >= upper_limits[i] - activation_thresh
                THEN upper_limits[i] - deactivation_thresh ELSE q[i]]
    /\ Ran("JointLimits.update", NoValue)
    /\ UNCHANGED <<eta, T, K, jlHist, obsVars, task, sweepVars>>

JointLimits_update ==
    /\ activation' = UpdateActivation(activation, q)
    /\ jlJ' = JLJacobian
    /\ jlErr' = JLError(K)
    /\ Ran("JointLimits.update", NoValue)
    /\ UNCHANGED <<robotVars, K, jlHist, obsVars, task, sweepVars>>

JointLimits_isActive ==
    /\ Ran("JointLimits.isActive", Returned(JLisActive(activation)))
    /\ UNCHANGED <<robotVars, jlVars, obsVars, task, sweepVars>>

Next ==
    \/ \E js \in JointStates : RobotUpdate(js)
    \/ JointLimits_updateActivation
    \/ JointLimits_update
    \/ JointLimits_isActive

Spec == Init /\ [][Next]_vars

-----------------------------------------------------------------------------
(* Actions: Obstacle3D *)

\* self.T = kinematics(...): the end effector is somewhere
Kinematics(xy) ==
    /\ T' = [set |-> TRUE, xy |-> xy]
    /\ Ran("kinematics", NoValue)
    /\ UNCHANGED <<q, eta, jlVars, obsVars, task, sweepVars>>

\* updateActivation(robot); getEETransform raises while T was never set
Obstacle3D_updateActivation ==
    /\ IF T.set
       THEN /\ obsActivation' =
                  ObstacleActivation(obsActivation, NormSq(obstacle, T.xy), obsThresh)
            /\ obsHist' = AppendHist(obsHist, NormSq(obstacle, T.xy), MaxHist)
            /\ Ran("Obstacle3D.updateActivation", NoValue)
       ELSE /\ UNCHANGED <<obsActivation, obsHist>>
            /\ Ran("Obstacle3D.updateActivation", Raised("AttributeError"))
    /\ UNCHANGED <<robotVars, jlVars, obsErr, obsJ, obsThresh, task, sweepVars>>

\* update(robot): err first, then J; getEEJacobian reads eta[3]
Obstacle3D_update ==
    /\ IF ~T.set
       THEN /\ UNCHANGED <<obsErr, obsJ>>
            /\ Ran("Obstacle3D.update", Raised("AttributeError"))
       ELSE /\ obsErr' = ObstacleError(T.xy, obstacle)
            /\ IF Size(eta) >= 4
               THEN /\ obsJ' = Rows(getEEJacobian(q, eta), <<0, 1, 2>>)
                    /\ Ran("Obstacle3D.update", NoValue)
               ELSE /\ UNCHANGED obsJ
                    /\ Ran("Obstacle3D.update", Raised("IndexError"))
    /\ UNCHANGED <<robotVars, jlVars, obsActivation, obsHist, obsThresh, task, sweepVars>>

\* isActive(): Task.isActive returns the activation
Obstacle3D_isActive ==
    /\ Ran("Obstacle3D.isActive", Returned(obsActivation))
    /\ UNCHANGED <<robotVars, jlVars, obsVars, task, sweepVars>>

InitObs ==
    \E a, d \in 1..MaxThresh : a < d /\ Construct([act |-> a, deact |-> d], "EEPosition3D")

NextObs ==
    \/ \E xy \in EEPoints : Kinematics(xy)
    \/ Obstacle3D_updateActivation
    \/ Obstacle3D_update
    \/ Obstacle3D_isActive

SpecObs == InitObs /\ [][NextObs]_vars

\* C4: one updateActivation of the obstacle task, at distance d of the end
\* effector from the obstacle: inactive becomes active exactly when
\* d <= activation_thresh, active becomes inactive exactly when
\* d >= deactivation_thresh, and strictly between the two thresholds the
\* activation is what it was.
C4_ObstacleHysteresis ==
    (lastOp = "Obstacle3D.updateActivation" /\ ret.ok) =>
        LET d2 == NormSq(obstacle, T.xy)
            near == d2 <= obsThresh.act * obsThresh.act
            far == d2 >= obsThresh.deact * obsThresh.deact
        IN  /\ obsThresh.act < obsThresh.deact
            /\ (~preObs) => (obsActivation <=> near)
            /\ preObs => (obsActivation <=> ~far)
            /\ ((~near) /\ (~far)) => obsActivation = preObs

C4_Witness ==
    /\ lastOp = "Obstacle3D.updateActivation"
    /\ ret.ok
    /\ preObs
    /\ obsActivation
    /\ NormSq(obstacle, T.xy) > obsThresh.act * obsThresh.act
    /\ NormSq(obstacle, T.xy) < obsThresh.deact * obsThresh.deact

\* C5: with the end effector exactly over the obstacle, update stores no
\* NaN or infinite error: it ends in SingularConfiguration or with a finite
\* error.
C5_ZeroDistanceGuarded ==
    (lastOp = "Obstacle3D.update" /\ T.set /\ T.xy = obstacle) =>
        \/ ret = Raised("SingularConfiguration")
        \/ \A i \in DOMAIN obsErr : IsFinite(obsErr[i])

-----------------------------------------------------------------------------
(* Actions: the base pose *)

MaxPose == 1
MaxDt == 1

Velocities == {-1, 0, 1}

\* The pose is within the window the model explores.
InWindow(e) ==
    \A i \in DOMAIN e : IsFinite(e[i]) => (e[i].v >= -MaxPose /\ e[i].v <= MaxPose)

Motion(av, fv, dt) == [NoArg EXCEPT !.dQ = <<av, fv>>, !.dt = dt]

\* update(dQ, dt, policy): the class defines update twice and the later
\* update(jointState) is the one bound, so this call raises TypeError.
MobileManipulator_update_dQ(av, fv, dt) ==
    /\ Called("MobileManipulator.update(dQ, dt)", Motion(av, fv, dt), Raised("TypeError"))
    /\ UNCHANGED <<robotVars, jlVars, obsVars, task, sweepVars>>

move_then_rotate(av, fv, dt) ==
    /\ InWindow(eta)
    /\ IF CanAdd3(eta)
       THEN /\ eta' = Add3(eta, MoveThenRotateStep(eta, av, fv, dt))
            /\ Called("move_then_rotate", Motion(av, fv, dt), NoValue)
       ELSE /\ UNCHANGED eta
            /\ Called("move_then_rotate", Motion(av, fv, dt), Raised("ValueError"))
    /\ UNCHANGED <<q, T, jlVars, obsVars, task, sweepVars>>

rotate_then_move(av, fv, dt) ==
    /\ InWindow(eta)
    /\ IF CanAdd3(eta)
       THEN /\ eta' = Add3(Rotate(eta, av, dt), MoveStep(Rotate(eta, av, dt), fv, dt))
            /\ Called("rotate_then_move", Motion(av, fv, dt), NoValue)
       ELSE /\ eta' = Rotate(eta, av, dt)
            /\ Called("rotate_then_move", Motion(av, fv, dt), Raised("ValueError"))
    /\ UNCHANGED <<q, T, jlVars, obsVars, task, sweepVars>>

move_and_rotate_simultaneously(av, fv, dt) ==
    /\ InWindow(eta)
    /\ eta' = MoveAndRotate(eta, av, fv, dt)
    /\ Called("move_and_rotate_simultaneously", Motion(av, fv, dt), NoValue)
    /\ UNCHANGED <<q, T, jlVars, obsVars, task, sweepVars>>

\* reset(): q and eta are zeroed, eta as (3, 1), and the call of
\* self.update(np.zeros((self.dof, 1)), 0.0) raises TypeError
reset ==
    /\ q' = [i \in 0..3 |-> 0]
    /\ eta' = Zeros(3)
    /\ Ran("reset", Raised("TypeError"))
    /\ UNCHANGED <<T, jlVars, obsVars, task, sweepVars>>

NextBase ==
    \/ \E js \in {JointState(0, 0, 0, 0)} : RobotUpdate(js)
    \/ reset
    \/ \E av \in Velocities, fv \in Velocities, dt \in 0..MaxDt :
           \/ MobileManipulator_update_dQ(av, fv, dt)
           \/ move_then_rotate(av, fv, dt)
           \/ rotate_then_move(av, fv, dt)
           \/ move_and_rotate_simultaneously(av, fv, dt)

SpecBase == Init /\ [][NextBase]_vars

\* C6: with angular velocity zero, move_and_rotate_simultaneously leaves a
\* defined base pose: no entry of eta is NaN or infinite.
C6_StraightLineGuarded ==
    (lastOp = "move_and_rotate_simultaneously" /\ arg.dQ[1] = 0) =>
        \A i \in DOMAIN eta : IsFinite(eta[i])

-----------------------------------------------------------------------------
(* Actions: the tracking tasks and the accessors every task inherits *)

\* update(robot) of the five tracking classes.  getEEJacobian reads eta[3]
\* and raises IndexError on a (3, 1) eta; MobileManipulator has no
\* getEEorientation, getMMJacobian, getMMposition or getMMorientation.
TaskUpdated(t, qq, e) ==
    CASE t.class = "EEPosition3D" ->
           IF Size(e) < 4 THEN [t |-> t, r |-> Raised("IndexError")]
           ELSE [t |-> [t EXCEPT !.J = Rows(getEEJacobian(qq, e), <<0, 1, 2>>),
                                 !.err = TrackingError(getEEposition(qq, e))],
                 r |-> NoValue]
      [] t.class = "EEOrientation3D" ->
           IF Size(e) < 4 THEN [t |-> t, r |-> Raised("IndexError")]
           ELSE [t |-> [t EXCEPT !.J = Rows(getEEJacobian(qq, e), <<5>>)],
                 r |-> Raised("AttributeError")]
      [] t.class = "EEConfiguration3D" ->
           IF Size(e) < 4 THEN [t |-> t, r |-> Raised("IndexError")]
           ELSE [t |-> [t EXCEPT !.J = Rows(getEEJacobian(qq, e), <<0, 1, 2, 5>>),
                                 !.err_pos = PositionError(getEEposition(qq, e))],
                 r |-> Raised("AttributeError")]
      [] OTHER -> [t |-> t, r |-> Raised("AttributeError")]

Task_update ==
    /\ task' = TaskUpdated(task, q, eta).t
    /\ Ran("Task.update", TaskUpdated(task, q, eta).r)
    /\ UNCHANGED <<robotVars, jlVars, obsVars, sweepVars>>

\* Task.updateActivation: pass
Task_updateActivation ==
    /\ Ran("Task.updateActivation", NoValue)
    /\ UNCHANGED <<robotVars, jlVars, obsVars, task, sweepVars>>

\* Task.isActive: the activation, 1 since construction
Task_isActive ==
    /\ Ran("Task.isActive", Returned(1))
    /\ UNCHANGED <<robotVars, jlVars, obsVars, task, sweepVars>>

\* Task.getJacobian: self.J, an attribute only update or EEPosition3D's
\* constructor sets
Task_getJacobian ==
    /\ Ran("Task.getJacobian",
           IF task.J.set THEN Returned(task.J) ELSE Raised("AttributeError"))
    /\ UNCHANGED <<robotVars, jlVars, obsVars, task, sweepVars>>

Task_getError ==
    /\ Ran("Task.getError", Returned(task.err))
    /\ UNCHANGED <<robotVars, jlVars, obsVars, task, sweepVars>>

\* track_err: the norm of the error is appended; EEConfiguration3D reads
\* err_pos and err_ori, and err_ori is never set
Task_track_err ==
    /\ IF task.class = "EEConfiguration3D"
       THEN /\ UNCHANGED task
            /\ Ran("Task.track_err", Raised("AttributeError"))
       ELSE /\ task' = [task EXCEPT !.hist = AppendHist(task.hist, task.err, MaxHist)]
            /\ Ran("Task.track_err", NoValue)
    /\ UNCHANGED <<robotVars, jlVars, obsVars, sweepVars>>

JointLimits_getJacobian ==
    /\ Ran("JointLimits.getJacobian", Returned(jlJ))
    /\ UNCHANGED <<robotVars, jlVars, obsVars, task, sweepVars>>

JointLimits_getError ==
    /\ Ran("JointLimits.getError", Returned(jlErr))
    /\ UNCHANGED <<robotVars, jlVars, obsVars, task, sweepVars>>

JointLimits_track_err ==
    /\ jlHist' = AppendHist(jlHist, jlErr, MaxHist)
    /\ Ran("JointLimits.track_err", NoValue)
    /\ UNCHANGED <<robotVars, activation, jlJ, jlErr, K, obsVars, task, sweepVars>>

Obstacle3D_getJacobian ==
    /\ Ran("Obstacle3D.getJacobian", Returned(obsJ))
    /\ UNCHANGED <<robotVars, jlVars, obsVars, task, sweepVars>>

Obstacle3D_getError ==
    /\ Ran("Obstacle3D.getError", Returned(obsErr))
    /\ UNCHANGED <<robotVars, jlVars, obsVars, task, sweepVars>>

\* Obstacle3D.track_err: pass
Obstacle3D_track_err ==
    /\ Ran("Obstacle3D.track_err", NoValue)
    /\ UNCHANGED <<robotVars, jlVars, obsVars, task, sweepVars>>

-----------------------------------------------------------------------------
(* Actions: the accessors of MobileManipulator *)

MaxIndex == 6

MobileManipulator_getJointPos(joint) ==
    /\ Called("MobileManipulator.getJointPos", [NoArg EXCEPT !.joint = joint],
              getJointPos(q, joint))
    /\ UNCHANGED <<robotVars, jlVars, obsVars, task, sweepVars>>

MobileManipulator_getDOF ==
    /\ Ran("MobileManipulator.getDOF", Returned(getDOF))
    /\ UNCHANGED <<robotVars, jlVars, obsVars, task, sweepVars>>

MobileManipulator_getBasePose ==
    /\ Ran("MobileManipulator.getBasePose", Returned(getBasePose(eta)))
    /\ UNCHANGED <<robotVars, jlVars, obsVars, task, sweepVars>>

\* Joint states whose four positions all differ, and the constructed zeros.
DistinctJointStates ==
    {js \in JointStates : \A i, j \in 0..3 : i # j => js[i] # js[j]}

NextAccess ==
    \/ \E js \in DistinctJointStates : RobotUpdate(js)
    \/ \E joint \in (-MaxIndex)..MaxIndex : MobileManipulator_getJointPos(joint)
    \/ MobileManipulator_getDOF
    \/ MobileManipulator_getBasePose

SpecAccess == Init /\ [][NextAccess]_vars

\* C7: getJointPos returns the position of the joint asked for when the
\* index names one of the joints 1..DOF, and fails for every other integer.
C7_OutOfRange ==
    lastOp = "MobileManipulator.getJointPos" =>
        IF arg.joint \in 1..getDOF
        THEN ret.ok /\ ret.val = q[arg.joint - 1]
        ELSE ~ret.ok

-----------------------------------------------------------------------------
(* Every task operation and accessor, on a robot that a joint-state message
   and the kinematics have moved *)

InitTasks ==
    \E c \in TaskClasses : Construct([act |-> 1, deact |-> MaxThresh], c)

NextTasks ==
    \/ RobotUpdate(JointState(upper_limits[0] - activation_thresh,
                              lower_limits[1] + activation_thresh,
                              upper_limits[2] - activation_thresh,
                              lower_limits[3] + activation_thresh))
    \/ Kinematics(obstacle)
    \/ Task_update
    \/ Task_updateActivation
    \/ Task_isActive
    \/ Task_getJacobian
    \/ Task_getError
    \/ Task_track_err
    \/ JointLimits_update
    \/ JointLimits_updateActivation
    \/ JointLimits_isActive
    \/ JointLimits_getJacobian
    \/ JointLimits_getError
    \/ JointLimits_track_err
    \/ Obstacle3D_update
    \/ Obstacle3D_updateActivation
    \/ Obstacle3D_isActive
    \/ Obstacle3D_getJacobian
    \/ Obstacle3D_getError
    \/ Obstacle3D_track_err
    \/ MobileManipulator_getJointPos(1)
    \/ MobileManipulator_getDOF
    \/ MobileManipulator_getBasePose

SpecTasks == InitTasks /\ [][NextTasks]_vars

TaskOps ==
    {"Task.update", "Task.updateActivation", "Task.isActive", "Task.getJacobian",
     "Task.getError", "Task.track_err",
     "JointLimits.update", "JointLimits.updateActivation", "JointLimits.isActive",
     "JointLimits.getJacobian", "JointLimits.getError", "JointLimits.track_err",
     "Obstacle3D.update", "Obstacle3D.updateActivation", "Obstacle3D.isActive",
     "Obstacle3D.getJacobian", "Obstacle3D.getError", "Obstacle3D.track_err"}

AccessorOps ==
    {"MobileManipulator.getJointPos", "MobileManipulator.getDOF",
     "MobileManipulator.getBasePose"}

\* C9: no operation of any task, and no accessor of the robot, changes the
\* joint positions q or the base pose eta.
C9_ConfigurationUntouched ==
    [][lastOp' \in (TaskOps \cup AccessorOps) => (q' = q /\ eta' = eta)]_vars

C9_Witness ==
    /\ lastOp = "JointLimits.update"
    /\ q[0] = upper_limits[0] - activation_thresh
    /\ activation[2] = -1
    /\ jlJ = JLJacobian
    /\ task.J.set /\ task.J.q = q
    /\ T.set

-----------------------------------------------------------------------------
(* A joint swept up and back down, updateActivation called at every position *)

MaxStep == 2

\* The distance between the two zones' release thresholds of joint i.
NeutralWidth(i) ==
    (upper_limits[i] - activation_thresh) - (lower_limits[i] + deactivation_thresh)

\* The steps of a sweep: small ones, one that jumps a whole hysteresis band,
\* and the largest that cannot jump from one limit's band into the other's.
SweepSteps(i) ==
    (1..MaxStep) \cup {deactivation_thresh - activation_thresh + 1, NeutralWidth(i)}

Seen(seq, a) == IF seq # <<>> /\ seq[Len(seq)] = a THEN seq ELSE Append(seq, a)

\* One tick: the joint state arrives (MobileManipulator.update) and
\* JointLimits.updateActivation runs on it.
SweepTick(i, pos, dir) ==
    /\ q' = [q EXCEPT ![i] = pos]
    /\ eta' = Zeros(4)
    /\ activation' = UpdateActivation(activation, q')
    /\ swJoint' = i
    /\ swDir' = dir
    /\ swSeq' = Seen(Seen(swSeq, activation[i + 2]), activation'[i + 2])
    /\ Ran("sweep", NoValue)
    /\ UNCHANGED <<T, jlJ, jlErr, K, jlHist, obsVars, task>>

SweepStart(i, below) ==
    /\ swDir = "idle"
    /\ SweepTick(i, lower_limits[i] + activation_thresh - below, "up")

SweepUp(step) ==
    /\ swDir = "up"
    /\ q[swJoint] <= upper_limits[swJoint] - activation_thresh
    /\ SweepTick(swJoint, q[swJoint] + step, "up")

SweepDown(step) ==
    /\ \/ swDir = "down"
       \/ swDir = "up" /\ q[swJoint] > upper_limits[swJoint] - activation_thresh
    /\ SweepTick(swJoint, q[swJoint] - step,
                 IF q[swJoint] - step < lower_limits[swJoint] + activation_thresh
                 THEN "done" ELSE "down")

NextSweep ==
    \/ \E i \in DOMAIN q, below \in 1..MaxStep : SweepStart(i, below)
    \/ swDir # "idle" /\ \E step \in SweepSteps(swJoint) : SweepUp(step)
    \/ swDir # "idle" /\ \E step \in SweepSteps(swJoint) : SweepDown(step)

SpecSweep == Init /\ [][NextSweep]_vars

IsPrefix(s, t) == Len(s) <= Len(t) /\ \A k \in 1..Len(s) : s[k] = t[k]

\* Strictly inside the hysteresis band below the upper limit of joint i, and
\* strictly inside the one above its lower limit
InUpperBand(i, pos) ==
    /\ pos > upper_limits[i] - limit_joint_threshold_deactivate
    /\ pos < upper_limits[i] - limit_joint_threshold_activate

InLowerBand(i, pos) ==
    /\ pos > lower_limits[i] + limit_joint_threshold_activate
    /\ pos < lower_limits[i] + limit_joint_threshold_deactivate

\* C2: a joint swept up from below its lower activation threshold to above
\* its upper one and back down shows the distinct activation values
\* 0, +1, 0, -1, 0 once it is, on its way down, at or below the upper release
\* threshold and still above the lower activation threshold; and no step
\* strictly inside a limit's hysteresis band switches that limit's activation
\* on or off.
C2_SweepSequence ==
    swDir # "idle" =>
        LET i == swJoint
            la == lower_limits[i] + limit_joint_threshold_activate
            ud == upper_limits[i] - limit_joint_threshold_deactivate
        IN  /\ (swDir = "down" /\ q[i] > la /\ q[i] <= ud) => swSeq = <<0, 1, 0, -1, 0>>
            /\ (InUpperBand(i, q[i]) /\ preAct[i + 2] \in {0, -1}) =>
                   activation[i + 2] = preAct[i + 2]
            /\ (InLowerBand(i, q[i]) /\ preAct[i + 2] \in {0, 1}) =>
                   activation[i + 2] = preAct[i + 2]

\* The same sweep of a joint that updateActivation visits: the values run
\* 0, +1, 0, -1, 0 and, once the joint is back at or below the lower
\* activation threshold, +1 again.
SweepOfVisitedJoint ==
    (swDir # "idle" /\ swJoint \in LoopRange) =>
        LET i == swJoint
            la == lower_limits[i] + limit_joint_threshold_activate
        IN  /\ C2_SweepSequence
            /\ IsPrefix(swSeq, <<0, 1, 0, -1, 0, 1>>)
            /\ (swDir \in {"down", "done"} /\ q[i] <= la) => swSeq = <<0, 1, 0, -1, 0, 1>>

\* The sweep of a joint that updateActivation does not visit: always 0.
SweepOfSkippedJoint ==
    (swDir # "idle" /\ swJoint \notin LoopRange) => swSeq = <<0>>

-----------------------------------------------------------------------------
(* Properties of JointLimits *)

JLOps == {"JointLimits.updateActivation", "JointLimits.update"}

\* The joints whose limits updateActivation reads, numbered from 1.
LimitedJoints == 1..(getDOF - 2)

\* The transitions of one joint as the specification lists them, for joint j
\* (numbered from 1) with activation a at position pos.
Hysteresis(a, pos, j) ==
    LET up == upper_limits[j - 1]
        lo == lower_limits[j - 1]
    IN  CASE a = 0 /\ pos >= up - limit_joint_threshold_activate -> -1
          [] a = 0 /\ pos < up - limit_joint_threshold_activate
                   /\ pos <= lo + limit_joint_threshold_activate -> 1
          [] a = -1 /\ pos <= up - limit_joint_threshold_deactivate -> 0
          [] a = 1 /\ pos >= lo + limit_joint_threshold_deactivate -> 0
          [] OTHER -> a

C3_AllJoints ==
    lastOp \in JLOps =>
        \A j \in 1..4 : activation[j + 1] = Hysteresis(preAct[j + 1], q[j - 1], j)

\* C8: a second update in a row on an unchanged robot leaves what the first
\* one produced: the activation (and so isActive), J and err; the same for
\* the obstacle task's updateActivation.
C8_Idempotent ==
    [][/\ (lastOp = "JointLimits.update" /\ lastOp' = "JointLimits.update") =>
            (activation' = activation /\ jlJ' = jlJ /\ jlErr' = jlErr)
       /\ (lastOp = "Obstacle3D.updateActivation"
              /\ lastOp' = "Obstacle3D.updateActivation") =>
            obsActivation' = obsActivation]_vars

\* C10: every entry of the activation vector is -1, 0 or 1, and isActive
\* answers 1 exactly when some entry is not 0.
C10_ActivationRange ==
    /\ \A k \in DOMAIN activation : activation[k] \in {-1, 0, 1}
    /\ lastOp = "JointLimits.isActive" =>
           (ret.val = 1 <=> \E k \in DOMAIN activation : activation[k] # 0)
    /\ lastOp = "JointLimits.isActive" => ret.val \in {0, 1}

C10_Witness ==
    /\ lastOp = "JointLimits.isActive"
    /\ ret.val = 1
    /\ activation[2] = -1
    /\ \A k \in DOMAIN activation : activation[k] <= 0

-----------------------------------------------------------------------------
(* What JointLimits exposes after update *)

\* The error the task holds for joint j (numbered from 1): the gain object
\* stands for every joint alike, the vector of zeros of the constructor has 0.
JLErrorOfJoint(j) == IF jlErr.is = "K" THEN jlErr.val ELSE 0

UnitRow(j) == [c \in 0..(getDOF - 1) |-> IF c = j - 1 THEN 1 ELSE 0]
ZeroRow == [c \in 0..(getDOF - 1) |-> 0]

\* C11: after update, a joint the task limits contributes by its activation:
\* nothing (a zero row, error 0) when it is 0; its unit row and an error of
\* the size of the gain when it is not, negative (decreasing the joint) when
\* upper-active (-1) and positive (increasing it) when lower-active (+1).
C11_ContributionByActivation ==
    lastOp = "JointLimits.update" =>
        \A j \in LimitedJoints :
            LET a == activation[j + 1]
            IN  /\ a = 0 => (jlJ[j - 1] = ZeroRow /\ JLErrorOfJoint(j) = 0)
                /\ a = -1 => (jlJ[j - 1] = UnitRow(j) /\ JLErrorOfJoint(j) = -K)
                /\ a = 1 => (jlJ[j - 1] = UnitRow(j) /\ JLErrorOfJoint(j) = K)

\* The part of C11 that the code meets: J is the identity and the error is
\* the gain, whatever the activation.
JLExposesIdentityAndGain ==
    lastOp = "JointLimits.update" =>
        /\ \A j \in 1..getDOF : jlJ[j - 1] = UnitRow(j)
        /\ \A j \in 1..getDOF : JLErrorOfJoint(j) = K

-----------------------------------------------------------------------------
(* The two sequential integration policies *)

\* The pose the claim describes after a call on pose e with heading h held
\* while the position advances.
Advanced(e, h, av, fv, dt) ==
    [i \in DOMAIN e |->
        CASE i = 0 -> FAdd(e[0], Fin(dt * fv * Cos4(h)))
          [] i = 1 -> FAdd(e[1], Fin(dt * fv * Sin4(h)))
          [] i = 2 -> FAdd(e[2], Fin(av * dt))
          [] OTHER -> e[i]]

FinitePose(e) == \A i \in DOMAIN e : IsFinite(e[i])

SequentialStep(op, h) ==
    (lastOp' = op /\ FinitePose(eta)) =>
        /\ ret'.ok
        /\ Size(eta') = Size(eta)
        /\ eta' = Advanced(eta, h, arg'.dQ[1], arg'.dQ[2], arg'.dt)

\* C12: move_then_rotate advances the position along the heading held before
\* the call, rotate_then_move along the heading already advanced; both end
\* with heading old + angular_vel*dt, complete, and keep the pose's dimension.
C12_SequentialPolicies ==
    [][/\ SequentialStep("move_then_rotate", eta[2].v)
       /\ SequentialStep("rotate_then_move", eta[2].v + arg'.dQ[1] * arg'.dt)]_vars

\* The same on a pose of three entries, as reset() leaves it.
SequentialPoliciesOnPlanarPose ==
    [][Size(eta) = 3 =>
          /\ SequentialStep("move_then_rotate", eta[2].v)
          /\ SequentialStep("rotate_then_move", eta[2].v + arg'.dQ[1] * arg'.dt)]_vars

\* On the pose of four entries of the constructor and of update(jointState)
\* both calls raise ValueError.
SequentialPoliciesOnConstructedPose ==
    (lastOp \in {"move_then_rotate", "rotate_then_move"} /\ Size(eta) = 4) =>
        ret = Raised("ValueError")

-----------------------------------------------------------------------------
(* The command-space dimension *)

\* self.revoluteExt = [True, False] + self.revolute: the base's two
\* coordinates and then the arm's joints
revoluteExt == <<TRUE, FALSE, TRUE, TRUE, TRUE, TRUE>>
DOF_total == Len(revoluteExt)

\* The number of columns of a slice getEEJacobian()[rows, :], which is
\* np.zeros((6, manipulatorParams.dof)) filled in; and of a matrix of rows.
EEJacobianColumns(J) == IF J.set THEN manipulatorParams_dof ELSE 0
MatrixColumns(m) == Size(m[0])

\* The joint (numbered from 1) that entry k of the activation stands for:
\* updateActivation keeps joint i + 1 in activation[i + 2].  And the joint
\* whose rate column c of a Jacobian multiplies: getEEJacobian fills column
\* c with the derivative by q(c + 1), np.eye pairs row c with column c.
ActivationJoint(k) == (k - 2) + 1
ColumnJoint(c) == c + 1

\* C13: every Jacobian an update produces has DOF_total columns, the
\* activation of JointLimits has as many entries, entry k and column k stand
\* for the same coordinate, and getDOF() returns that dimension.
C13_OneDimension ==
    /\ (lastOp = "JointLimits.update") =>
           /\ MatrixColumns(jlJ) = DOF_total
           /\ Size(activation) = MatrixColumns(jlJ)
           /\ \A k \in DOMAIN activation :
                  (k - 2) \in LoopRange => ActivationJoint(k) = ColumnJoint(k)
    /\ (lastOp = "Task.update" /\ ret.ok) => EEJacobianColumns(task.J) = DOF_total
    /\ (lastOp = "Obstacle3D.update" /\ ret.ok) => EEJacobianColumns(obsJ) = DOF_total
    /\ (lastOp = "MobileManipulator.getDOF") => ret.val = DOF_total

\* What the code keeps instead: the Jacobians have getDOF() = 4 columns, one
\* for each arm joint, and the activation has six entries.
JacobiansHaveArmColumns ==
    /\ (lastOp = "JointLimits.update") =>
           (MatrixColumns(jlJ) = getDOF /\ Size(activation) = DOF_total)
    /\ (lastOp = "Task.update" /\ ret.ok) => EEJacobianColumns(task.J) = getDOF
    /\ (lastOp = "Obstacle3D.update" /\ ret.ok) => EEJacobianColumns(obsJ) = getDOF
    /\ (lastOp = "MobileManipulator.getDOF") => ret.val = getDOF

-----------------------------------------------------------------------------
(* The activation of a joint inside a limit's zone *)

InUpperZone(j) == q[j - 1] >= upper_limits[j - 1] - limit_joint_threshold_activate
InLowerZone(j) == q[j - 1] <= lower_limits[j - 1] + limit_joint_threshold_activate

\* The limits leave room between the two release thresholds.
RoomBetween(j) ==
    lower_limits[j - 1] + limit_joint_threshold_deactivate
        < upper_limits[j - 1] - limit_joint_threshold_deactivate

\* C14: after every call of updateActivation, whatever the positions were
\* before, a joint in its upper activation zone has activation -1 and a joint
\* in its lower activation zone has +1.  Stated for the joints the loop of
\* updateActivation visits.
C14_ZoneImpliesActivation ==
    lastOp \in JLOps =>
        \A j \in LimitedJoints :
            RoomBetween(j) =>
                /\ InUpperZone(j) => activation[j + 1] = -1
                /\ InLowerZone(j) => activation[j + 1] = 1

\* What one call gives: the zone's activation unless the joint held the
\* other limit's activation, which the call only releases to 0.
ZoneActivationAfterOneCall ==
    lastOp \in JLOps =>
        \A j \in LimitedJoints :
            /\ InUpperZone(j) =>
                   activation[j + 1] = (IF preAct[j + 1] = 1 THEN 0 ELSE -1)
            /\ InLowerZone(j) =>
                   activation[j + 1] = (IF preAct[j + 1] = -1 THEN 0 ELSE 1)

====
